---- MODULE Spec2Model ----
(***************************************************************************)
(* Model of the container pick-list service (src/main.py): the active      *)
(* request store (table REQUESTS), the history store (REQUESTS_HISTORY),   *)
(* the ERP location oracle, the submission and manual-deletion handlers,   *)
(* and the two reconciliation passes, automated_container_cleanup and      *)
(* manual_container_cleanup.  Every await of a handler is a point where    *)
(* another handler may run, so each handler is cut into steps there.       *)
(***************************************************************************)
EXTENDS Integers, Sequences, FiniteSets, TLC

\* ------------------------------------------------------------- bounds
MaxStored  == 1      \* rows already stored when the process starts
MaxLoaded  == 2      \* rows stored when only the passes run (SpecPass)
MaxSubmits == 1      \* submissions per behaviour
MaxPasses  == 1      \* reconciliation passes started per behaviour
MaxMoves   == 1      \* changes of the oracle's answers per behaviour
MaxFaults  == 1      \* failed history writes per behaviour
GateExtra  == 1      \* how far above the ceiling the large stores go
MaxTicks   == 3      \* trigger firings of the scheduler per behaviour
MaxHistory == 2      \* rows REQUESTS_HISTORY ever holds when the retention job is exercised
MaxDays    == 1      \* days that pass while the retention job is exercised
MaxChurn   == 1      \* connects, disconnects and deaths of WebSocket clients per behaviour
MaxMinutes == 2      \* span, in minutes, of the instants given to the duration arithmetic
MaxDeletes == 25     \* DELETE /api/requests/{serial_no} requests per behaviour
MaxPassTasks == 1    \* reconciliation passes that reach their removal loop, per behaviour
MaxLoops   == 1      \* candidates after the first, over all those passes

\* ------------------------------------------------- values of the model
Serials     == {"S1", "S2"}
Locations   == {"WH-1", "PROD-A"}
NoLocation  == "None"
ReqTimes    == {1, 2}
PICK_UP     == "PICK_UP"
PUT_BACK    == "PUT_BACK"
ReqTypes    == {PICK_UP, PUT_BACK}
PassIds     == {"scheduled", "manual"}
\* What get_prod_locations can answer: the set, or [] on any failure.
ProdSets    == {{}, {"PROD-A"}}

\* The ceiling the scheduled pass compares against: the literal of
\* `if len(containers_to_remove) > 10`.
SafetyLimit == 10

\* maxsize of the connection pool: AppConfig.DB_POOL_MAX_SIZE, 25 unless
\* the environment says otherwise.
DB_POOL_MAX_SIZE == 25

\* The age the retention job compares against: the literal of
\* `DATEADD(day, -30, GETDATE())`.
RetentionDays == 30

VARIABLES
    requests,     \* table REQUESTS: a set of rows; rid is the row's storage identity
    history,      \* table REQUESTS_HISTORY: rows in history_id order
    req_id,       \* the module-level counter req_id
    inserted,     \* number of rows ever inserted (gives rid)
    pendingInc,   \* submission handlers between their INSERT and `req_id += 1`
    erpLoc,       \* oracle: serial -> location, NoLocation when the lookup gives nothing
    erpProd,      \* oracle: the production-location set; {} when the fetch gives nothing
    moves,        \* oracle changes so far
    faults,       \* failed history writes so far
    pass,         \* the two reconciliation passes, per PassIds
    passes,       \* passes started so far
    dr,           \* the delete_request handler
    deleted       \* ghost: every row removed from REQUESTS, by whom, audited or not

\* The program's other parts, one variable each: the scheduler and the
\* resources shutdown closes, a call of log_request_to_history seen for its
\* duration arithmetic, REQUESTS_HISTORY as the retention job sees it, the
\* WebSocket registry with a broadcast under way, and the record of a pass
\* run a second time.
VARIABLES sched, dur, retention, ws, runs

\* And three more: a request followed from REQUESTS into REQUESTS_HISTORY
\* with all its columns, the settings AppConfig reads from the environment,
\* and the storage connection pool with the tasks that draw on it.
VARIABLES audit, config, pool

auxVars == <<sched, dur, retention, ws, runs, audit, config, pool>>

vars == <<requests, history, req_id, inserted, pendingInc, erpLoc, erpProd,
          moves, faults, pass, passes, dr, deleted, auxVars>>

\* ------------------------------------------------------------ helpers
Max(S) == CHOOSE x \in S : \A y \in S : y <= x

\* A row of REQUESTS as the handlers insert it.
Row(rid, id, serial, time, type) ==
    [rid |-> rid, req_id |-> id, serial_no |-> serial, req_time |-> time,
     request_type |-> type]

\* SELECT ... FROM REQUESTS ORDER BY req_time DESC: every order of the rows
\* that is descending in req_time (rows with equal req_time in any order).
RECURSIVE OrderedByReqTimeDesc(_)
OrderedByReqTimeDesc(rows) ==
    IF rows = {} THEN {<<>>}
    ELSE LET newest == Max({r.req_time : r \in rows})
             first  == {r \in rows : r.req_time = newest}
         IN  UNION {{<<r>> \o rest : rest \in OrderedByReqTimeDesc(rows \ {r})} :
                    r \in first}

\* The row log_request_to_history inserts.
HistoryRecord(c_req_id, serial, time, type, current_location, fulfillment_type) ==
    [req_id |-> c_req_id, serial_no |-> serial, req_time |-> time,
     request_type |-> type, current_location |-> current_location,
     fulfillment_type |-> fulfillment_type]

\* Is there a history row for this active row (same req_id and serial_no)?
Audited(row, hist) ==
    \E n \in 1..Len(hist) :
        hist[n].req_id = row.req_id /\ hist[n].serial_no = row.serial_no

\* ----------------------------------------------------- the pass record
IdlePass ==
    [pc |-> "idle",
     prod_locations |-> {},
     active_requests |-> <<>>,
     i |-> 1,
     containers_to_remove |-> <<>>,
     k |-> 1,
     history_logged |-> FALSE,
     pendingDel |-> {},
     errors |-> 0,
     event |-> "none",
     status |-> "none",
     outcome |-> "none",
     \* ghost fields: what this pass did, for the properties
     loaded |-> FALSE,
     observed |-> <<>>,
     histOk |-> {},
     histFail |-> {},
     delIssued |-> {},
     removed |-> {}]

IdleDelete == [pc |-> "idle", serial_no |-> "", request_data |-> <<>>,
               history_logged |-> FALSE]

\* ------------------------------------------ the scheduler, at startup
\* The jobs startup_event adds: the interval job, the cron job and the
\* one-shot job, each with the function it runs.
JobIds == {"container_cleanup", "history_cleanup", "initial_cleanup"}

JobFunc(job) ==
    IF job = "history_cleanup" THEN "automated_history_cleanup"
    ELSE "automated_container_cleanup"

\* max_instances of a job: 2 would let a second execution start.
MaxInstancesTwo(job) == 2

\* max_instances=1 of the two repeating jobs; add_job's default, 1, for the
\* one-shot job.
MaxInstances(job) == 1

\* The scheduler after startup_event, nothing running, the HTTP client and
\* the connection pool usable.
IdleSched ==
    [running |-> TRUE,
     http_client |-> "open",
     connection_pool |-> "open",
     live |-> [j \in JobIds |-> 0],
     stage |-> [j \in JobIds |-> "none"],
     initial_pending |-> TRUE,
     fired |-> 0,
     \* ghost fields
     ticks |-> [j \in JobIds |-> 0],
     starts |-> [j \in JobIds |-> 0],
     skipped |-> [j \in JobIds |-> 0],
     most |-> [j \in JobIds |-> 0],
     startedAfterShutdown |-> FALSE,
     inFlightAtShutdown |-> {},
     finishedAfterShutdown |-> {},
     hurt |-> {}]

IdleDur == [called |-> FALSE]

IdleRetention == [pc |-> "none"]

IdleWs == [pc |-> "none"]

IdleRuns == [second |-> FALSE]

IdleAudit == [done |-> FALSE]

\* AppConfig with nothing set in the environment.
DefaultConfig == [CLEANUP_SAFETY_LIMIT |-> 10]

IdlePool == [pc |-> "none"]

\* The parts of the program a specification does not exercise, at rest.
AuxInit ==
    /\ sched = IdleSched
    /\ dur = IdleDur
    /\ retention = IdleRetention
    /\ ws = IdleWs
    /\ runs = IdleRuns
    /\ audit = IdleAudit
    /\ config = DefaultConfig
    /\ pool = IdlePool

\* The stores a starting process can find: rows an earlier run of the
\* process inserted one after the other, with the ids its counter gave
\* them (0, 1, ...).
StoredRows(n) ==
    {rows \in SUBSET {Row(j, j - 1, s, j, ty) :
                         j \in 1..n, s \in Serials, ty \in ReqTypes} :
        \A j \in 1..n : Cardinality({r \in rows : r.rid = j}) = 1}

\* A store around the safety ceiling: n requests of n submissions, one a
\* minute, all but the last for container S1.
LargeStores(n) ==
    {{Row(j, j - 1, "S1", j, PICK_UP) : j \in 1..(n - 1)} \cup {Row(n, n - 1, s, n, ty)} :
        s \in Serials, ty \in ReqTypes}

\* Process start: the tables hold what earlier runs left; the counter starts
\* at 0 (`req_id = 0` at module level).  The oracle is in some state.
Init ==
    /\ \E n \in 0..MaxStored : requests \in StoredRows(n)
    /\ history = <<>>
    /\ req_id = 0
    /\ inserted = Cardinality(requests)
    /\ pendingInc = 0
    /\ erpLoc = [s \in Serials |-> IF s = "S1" THEN "PROD-A" ELSE "WH-1"]
    /\ erpProd = {"PROD-A"}
    /\ moves = 0
    /\ faults = 0
    /\ pass = [p \in PassIds |-> IdlePass]
    /\ passes = 0
    /\ dr = IdleDelete
    /\ deleted = {}
    /\ AuxInit

\* ------------------------------------------------------- submissions
\* request_serial_no up to its commit: the INSERT carries the counter's
\* current value; the handler then awaits the commit.
SubmitInsert(serial, time, type) ==
    /\ inserted < MaxStored + MaxSubmits
    /\ requests' = requests \cup {Row(inserted + 1, req_id, serial, time, type)}
    /\ inserted' = inserted + 1
    /\ pendingInc' = pendingInc + 1
    /\ UNCHANGED auxVars
    /\ UNCHANGED <<history, req_id, erpLoc, erpProd, moves, pass, passes, dr, deleted, faults>>

\* request_serial_no after the commit: `req_id += 1`.
SubmitIncrement ==
    /\ pendingInc > 0
    /\ req_id' = req_id + 1
    /\ pendingInc' = pendingInc - 1
    /\ UNCHANGED auxVars
    /\ UNCHANGED <<requests, history, inserted, erpLoc, erpProd, moves, pass,
                   passes, dr, deleted, faults>>

\* ------------------------------------------------------------ oracle
\* The ERP system is outside the program: a container moves, or its lookup
\* starts to fail (timeout, non-200, no rows: all reach the caller as None).
ErpMove(serial, loc) ==
    /\ moves < MaxMoves
    /\ erpLoc[serial] # loc
    /\ erpLoc' = [erpLoc EXCEPT ![serial] = loc]
    /\ moves' = moves + 1
    /\ UNCHANGED auxVars
    /\ UNCHANGED <<requests, history, req_id, inserted, pendingInc, erpProd,
                   pass, passes, dr, deleted, faults>>

\* The production-location set changes, or its fetch starts to fail
\* (get_prod_locations answers [] for every failure it catches).
ErpReclassify(prod) ==
    /\ moves < MaxMoves
    /\ erpProd # prod
    /\ erpProd' = prod
    /\ moves' = moves + 1
    /\ UNCHANGED auxVars
    /\ UNCHANGED <<requests, history, req_id, inserted, pendingInc, erpLoc,
                   pass, passes, dr, deleted, faults>>

\* ------------------------------------------------ reconciliation pass
\* get_prod_locations: the oracle's set, [] when the fetch fails.
get_prod_locations == erpProd

\* check_container_current_location: the oracle's location, None when the
\* lookup fails or finds nothing.
check_container_current_location(serial) == erpLoc[serial]

\* The test left out: the pass goes on with an empty list.
NoProdLocationsIgnored(prod_locations) == FALSE

\* `if not prod_locations:` of the scheduled pass.
NoProdLocations(prod_locations) == prod_locations = {}

\* `if request_type == 'PUT_BACK': continue`
SkipRequest(request_type) == request_type = PUT_BACK

\* No request is ever flagged.
IsCandidateNever(current_location, prod_locations) == FALSE

\* `if current_location:` and `current_location in prod_locations`
IsCandidate(current_location, prod_locations) ==
    current_location # NoLocation /\ current_location \in prod_locations

\* The safety check one off: a pass one above the ceiling goes on.
SafetyAbortOffByOne(p, n) == p = "scheduled" /\ n > SafetyLimit + 1

\* The safety check: only automated_container_cleanup has one.
SafetyAbort(p, n) == p = "scheduled" /\ n > SafetyLimit

\* The DELETE issued whatever log_request_to_history answered, as
\* delete_request does.
ShouldDeleteAnyway(history_logged) == TRUE

\* `if history_logged:` before the DELETE.
ShouldDelete(history_logged) == history_logged

\* The DELETE matching no row.
DeleteByReqIdNothing(rows, id) == {}

\* DELETE FROM REQUESTS WHERE req_id = ?: the rows the statement matches.
DeleteByReqId(rows, id) == {r \in rows : r.req_id = id}

\* fulfillment_type each pass hands to log_request_to_history.
FulfillmentType(p) == IF p = "scheduled" THEN "auto_cleanup" ELSE "manual_cleanup"

\* The end of a pass that went through: the completion event of the
\* scheduled pass, the results dict of the manual one.
Finished(ps, p) ==
    IF p = "scheduled"
    THEN [ps EXCEPT !.pc = "done", !.outcome = "complete",
                    !.event = "auto_cleanup_complete"]
    ELSE [ps EXCEPT !.pc = "done", !.outcome = "complete", !.status = "success"]

\* The exception handlers: the scheduled pass sends auto_cleanup_error, the
\* manual pass returns status error.
Failed(ps, p) ==
    IF p = "scheduled"
    THEN [ps EXCEPT !.pc = "done", !.outcome = "error", !.event = "auto_cleanup_error"]
    ELSE [ps EXCEPT !.pc = "done", !.outcome = "error", !.status = "error"]

\* After the loop over active_requests: nothing to remove, the safety abort,
\* or on to the removal loop.
AfterLoop(ps, p) ==
    LET n == Len(ps.containers_to_remove)
    IN  IF n = 0 THEN Finished(ps, p)
        ELSE IF SafetyAbort(p, n)
             THEN [ps EXCEPT !.pc = "done", !.outcome = "safety_abort"]
             ELSE [ps EXCEPT !.pc = "retire", !.k = 1]

\* Start of a pass: fetch the production locations.  The fetch answers the
\* oracle's set ([] for the failures it catches) or raises.  The scheduled
\* pass returns on an empty list; the manual pass has no such test.
StartedPass(p, raised) ==
    IF raised THEN Failed(IdlePass, p)
    ELSE IF p = "scheduled" /\ NoProdLocations(get_prod_locations)
         THEN [IdlePass EXCEPT !.pc = "done", !.outcome = "no_prod_locations"]
         ELSE [IdlePass EXCEPT !.pc = "load", !.prod_locations = get_prod_locations]

StartPass(p) ==
    /\ pass[p].pc \in {"idle", "done"}
    /\ passes < MaxPasses
    /\ passes' = passes + 1
    /\ \E raised \in BOOLEAN : pass' = [pass EXCEPT ![p] = StartedPass(p, raised)]
    /\ UNCHANGED auxVars
    /\ UNCHANGED <<requests, history, req_id, inserted, pendingInc, erpLoc,
                   erpProd, moves, dr, deleted, faults>>

\* SELECT ... FROM REQUESTS ORDER BY req_time DESC; fetchall.  With no row
\* the loop is empty and the pass goes straight on.
LoadRequests(p) ==
    /\ pass[p].pc = "load"
    /\ \E list \in OrderedByReqTimeDesc(requests) :
          pass' = [pass EXCEPT ![p] =
              LET ps == [pass[p] EXCEPT !.active_requests = list, !.loaded = TRUE]
              IN  IF list = <<>> THEN AfterLoop(ps, p) ELSE [ps EXCEPT !.pc = "check"]]
    /\ UNCHANGED auxVars
    /\ UNCHANGED <<requests, history, req_id, inserted, pendingInc, erpLoc,
                   erpProd, moves, passes, dr, deleted, faults>>

\* One turn of the loop over active_requests; after the last one, the code
\* that follows the loop.
CheckRequest(p) ==
    /\ pass[p].pc = "check"
    /\ LET ps  == pass[p]
           row == ps.active_requests[ps.i]
           loc == check_container_current_location(row.serial_no)
           turn == IF SkipRequest(row.request_type)
                   THEN [ps EXCEPT !.i = ps.i + 1,
                                   !.observed = Append(ps.observed, "skipped")]
                   ELSE [ps EXCEPT !.i = ps.i + 1,
                                   !.observed = Append(ps.observed, loc),
                                   !.containers_to_remove =
                                       IF IsCandidate(loc, ps.prod_locations)
                                       THEN Append(ps.containers_to_remove,
                                                   [row |-> row, current_location |-> loc])
                                       ELSE ps.containers_to_remove]
       IN  pass' = [pass EXCEPT ![p] =
              IF ps.i = Len(ps.active_requests) THEN AfterLoop(turn, p) ELSE turn]
    /\ UNCHANGED auxVars
    /\ UNCHANGED <<requests, history, req_id, inserted, pendingInc, erpLoc,
                   erpProd, moves, passes, dr, deleted, faults>>

\* The pass after candidate k: the next candidate, or the commit.
NextCandidate(ps) ==
    [ps EXCEPT !.k = ps.k + 1,
               !.pc = IF ps.k = Len(ps.containers_to_remove) THEN "commit" ELSE "retire"]

\* One turn of the removal loop, for candidate k.  log_request_to_history
\* commits its INSERT and answers True, or fails, writes nothing and answers
\* False.  Then, `if history_logged`, DELETE FROM REQUESTS WHERE req_id = ?
\* on the pass's own connection: the rows it matches leave the table when
\* the pass commits.  Otherwise the item is reported and skipped.
RetireCandidate(p) ==
    /\ pass[p].pc = "retire"
    /\ LET ps == pass[p]
           c  == ps.containers_to_remove[ps.k]
           hit == {r.rid : r \in DeleteByReqId(requests, c.row.req_id)}
       IN  \E ok \in BOOLEAN :
             /\ ok \/ faults < MaxFaults
             /\ faults' = IF ok THEN faults ELSE faults + 1
             /\ history' = IF ok
                           THEN Append(history,
                                  HistoryRecord(c.row.req_id, c.row.serial_no,
                                                c.row.req_time, c.row.request_type,
                                                c.current_location, FulfillmentType(p)))
                           ELSE history
             /\ pass' = [pass EXCEPT ![p] =
                   LET seen == [ps EXCEPT !.history_logged = ok,
                                   !.histOk = IF ok THEN @ \cup {ps.k} ELSE @,
                                   !.histFail = IF ok THEN @ ELSE @ \cup {ps.k}]
                   IN  IF ShouldDelete(ok)
                       THEN NextCandidate([seen EXCEPT !.pendingDel = @ \cup hit,
                                                       !.delIssued = @ \cup {ps.k}])
                       ELSE NextCandidate([seen EXCEPT !.errors = @ + 1])]
    /\ UNCHANGED auxVars
    /\ UNCHANGED <<requests, req_id, inserted, pendingInc, erpLoc, erpProd,
                   moves, passes, dr, deleted>>

\* conn.commit() after the removal loop, then the completion event or the
\* results dict.
Commit(p) ==
    /\ pass[p].pc = "commit"
    /\ LET ps   == pass[p]
           gone == {r \in requests : r.rid \in ps.pendingDel}
       IN  /\ requests' = requests \ gone
           /\ deleted' = deleted \cup
                 {[row |-> r, by |-> p, audited |-> Audited(r, history)] : r \in gone}
           /\ pass' = [pass EXCEPT ![p] =
                 Finished([ps EXCEPT !.removed = {r.rid : r \in gone}], p)]
    /\ UNCHANGED auxVars
    /\ UNCHANGED <<history, req_id, inserted, pendingInc, erpLoc, erpProd,
                   moves, passes, dr, faults>>

\* ---------------------------------------------------- manual deletion
\* delete_request: SELECT ... WHERE serial_no = ?; fetchone.  No row: 404.
DeleteSelect(serial) ==
    /\ dr.pc = "idle"
    /\ LET rows == {r \in requests : r.serial_no = serial}
       IN  IF rows = {} THEN dr' = dr
           ELSE \E r \in rows :
                  dr' = [pc |-> "log", serial_no |-> serial, request_data |-> <<r>>,
                         history_logged |-> FALSE]
    /\ UNCHANGED auxVars
    /\ UNCHANGED <<requests, history, req_id, inserted, pendingInc, erpLoc,
                   erpProd, moves, pass, passes, deleted, faults>>

\* delete_request: log_request_to_history for the fetched row.
DeleteLog ==
    /\ dr.pc = "log"
    /\ LET r == dr.request_data[1]
       IN  \E ok \in BOOLEAN :
             /\ ok \/ faults < MaxFaults
             /\ faults' = IF ok THEN faults ELSE faults + 1
             /\ history' = IF ok
                           THEN Append(history,
                                  HistoryRecord(r.req_id, r.serial_no, r.req_time,
                                                r.request_type,
                                                "Unknown (Manual Delete)", "manual_delete"))
                           ELSE history
             /\ dr' = [dr EXCEPT !.pc = "delete", !.history_logged = ok]
    /\ UNCHANGED auxVars
    /\ UNCHANGED <<requests, req_id, inserted, pendingInc, erpLoc, erpProd,
                   moves, pass, passes, deleted>>

\* DELETE FROM REQUESTS WHERE serial_no = ?: every row holding the serial.
DeleteBySerialNo(rows, serial) == {r \in rows : r.serial_no = serial}

\* delete_request: the DELETE, whatever history_logged says, and the commit.
DeleteCommit ==
    /\ dr.pc = "delete"
    /\ LET gone == DeleteBySerialNo(requests, dr.serial_no)
       IN  /\ requests' = requests \ gone
           /\ deleted' = deleted \cup
                 {[row |-> r, by |-> "delete_request",
                   audited |-> Audited(r, history)] : r \in gone}
    /\ dr' = IdleDelete
    /\ UNCHANGED auxVars
    /\ UNCHANGED <<history, req_id, inserted, pendingInc, erpLoc, erpProd,
                   moves, pass, passes, faults>>

\* ------------------------------------------------------ specification
Next ==
    \/ \E s \in Serials, t \in ReqTimes, rt \in ReqTypes : SubmitInsert(s, t, rt)
    \/ SubmitIncrement
    \/ \E s \in Serials, l \in Locations \cup {NoLocation} : ErpMove(s, l)
    \/ \E prod \in ProdSets : ErpReclassify(prod)
    \/ \E p \in PassIds : StartPass(p)
    \/ \E p \in PassIds : LoadRequests(p)
    \/ \E p \in PassIds : CheckRequest(p)
    \/ \E p \in PassIds : RetireCandidate(p)
    \/ \E p \in PassIds : Commit(p)
    \/ \E s \in Serials : DeleteSelect(s)
    \/ DeleteLog
    \/ DeleteCommit

Spec == Init /\ [][Next]_vars

\* The passes alone, over a store that holds up to MaxLoaded requests, with
\* the oracle changing under them.
InitPass ==
    /\ \E n \in 0..MaxLoaded : requests \in StoredRows(n)
    /\ history = <<>>
    /\ req_id = 0
    /\ inserted = Cardinality(requests)
    /\ pendingInc = 0
    /\ erpLoc = [s \in Serials |-> IF s = "S1" THEN "PROD-A" ELSE "WH-1"]
    /\ erpProd = {"PROD-A"}
    /\ moves = 0
    /\ faults = 0
    /\ pass = [p \in PassIds |-> IdlePass]
    /\ passes = 0
    /\ dr = IdleDelete
    /\ deleted = {}
    /\ AuxInit

NoPassInFlight == \A q \in PassIds : pass[q].pc \in {"idle", "done"}

NextPass ==
    \/ \E s \in Serials, l \in Locations \cup {NoLocation} : ErpMove(s, l)
    \/ \E prod \in ProdSets : ErpReclassify(prod)
    \/ \E p \in PassIds : NoPassInFlight /\ StartPass(p)
    \/ \E p \in PassIds : LoadRequests(p)
    \/ \E p \in PassIds : CheckRequest(p)
    \/ \E p \in PassIds : RetireCandidate(p)
    \/ \E p \in PassIds : Commit(p)

SpecPass == InitPass /\ [][NextPass]_vars

\* The passes, one at a time, over a store with about as many requests as
\* the safety ceiling, for each answer the oracle can give.
InitGate ==
    /\ \E n \in SafetyLimit..(SafetyLimit + GateExtra) : requests \in LargeStores(n)
    /\ history = <<>>
    /\ req_id = 0
    /\ inserted = Cardinality(requests)
    /\ pendingInc = 0
    /\ erpLoc \in [Serials -> Locations \cup {NoLocation}]
    /\ erpProd = {"PROD-A"}
    /\ moves = 0
    /\ faults = 0
    /\ pass = [p \in PassIds |-> IdlePass]
    /\ passes = 0
    /\ dr = IdleDelete
    /\ deleted = {}
    /\ AuxInit

NextGate ==
    \/ \E p \in PassIds : NoPassInFlight /\ StartPass(p)
    \/ \E p \in PassIds : LoadRequests(p)
    \/ \E p \in PassIds : CheckRequest(p)
    \/ \E p \in PassIds : RetireCandidate(p)
    \/ \E p \in PassIds : Commit(p)

SpecGate == InitGate /\ [][NextGate]_vars

\* ------------------------------------------- what a pass reports
\* 'removed_containers': len(containers_to_remove), in the completion event
\* of the scheduled pass and in the results of the manual pass.
RemovedContainers(ps) == Len(ps.containers_to_remove)

\* 'containers_removed': the candidates of the pass, each one as it was
\* flagged; here the rows they stand for.
ContainersRemoved(ps) ==
    {ps.containers_to_remove[k].row.rid : k \in 1..Len(ps.containers_to_remove)}

\* ------------------------------------------------ a pass run again
\* The pass p, finished, is started once more: the same function, from
\* its first line.  The record of its first run is kept.
SecondRun(p) ==
    /\ pass[p].pc = "done"
    /\ ~runs.second
    /\ NoPassInFlight
    /\ \E raised \in BOOLEAN : pass' = [pass EXCEPT ![p] = StartedPass(p, raised)]
    /\ runs' = [second |-> TRUE, by |-> p, first |-> pass[p], stored |-> requests]
    /\ UNCHANGED <<requests, history, req_id, inserted, pendingInc, erpLoc,
                   erpProd, moves, passes, dr, deleted, faults>>
    /\ UNCHANGED <<sched, dur, retention, ws, audit, config, pool>>

\* The passes over a store of up to MaxLoaded requests, for each state the
\* oracle can be in; the oracle does not change and nothing is submitted.
InitTwice ==
    /\ \E n \in 0..MaxLoaded : requests \in StoredRows(n)
    /\ history = <<>>
    /\ req_id = 0
    /\ inserted = Cardinality(requests)
    /\ pendingInc = 0
    /\ erpLoc \in [Serials -> Locations \cup {NoLocation}]
    /\ erpProd \in ProdSets
    /\ moves = 0
    /\ faults = 0
    /\ pass = [p \in PassIds |-> IdlePass]
    /\ passes = 0
    /\ dr = IdleDelete
    /\ deleted = {}
    /\ AuxInit

NextTwice ==
    \/ \E p \in PassIds : NoPassInFlight /\ StartPass(p)
    \/ \E p \in PassIds : SecondRun(p)
    \/ \E p \in PassIds : LoadRequests(p)
    \/ \E p \in PassIds : CheckRequest(p)
    \/ \E p \in PassIds : RetireCandidate(p)
    \/ \E p \in PassIds : Commit(p)

SpecTwice == InitTwice /\ [][NextTwice]_vars

\* --------------------------------------------- scheduler and shutdown
coreVars == <<requests, history, req_id, inserted, pendingInc, erpLoc, erpProd,
              moves, faults, pass, passes, dr, deleted>>

\* The request side at rest: empty tables, no handler and no pass under way.
CoreIdle ==
    /\ requests = {}
    /\ history = <<>>
    /\ req_id = 0
    /\ inserted = 0
    /\ pendingInc = 0
    /\ erpLoc = [s \in Serials |-> IF s = "S1" THEN "PROD-A" ELSE "WH-1"]
    /\ erpProd = {"PROD-A"}
    /\ moves = 0
    /\ faults = 0
    /\ pass = [p \in PassIds |-> IdlePass]
    /\ passes = 0
    /\ dr = IdleDelete
    /\ deleted = {}

\* The awaits of a job function that need a shared resource, in order:
\* automated_container_cleanup fetches the production locations (HTTP
\* client), loads the requests (pool), looks each container up (HTTP
\* client), acquires a connection and logs to history (pool), commits on the
\* connection it holds; automated_history_cleanup acquires a connection.
FirstStage(func) == IF func = "automated_history_cleanup" THEN "sweep" ELSE "fetch"

StageAfter(stage) ==
    CASE stage = "fetch"  -> "load"
      [] stage = "load"   -> "check"
      [] stage = "check"  -> "retire"
      [] stage = "retire" -> "commit"
      [] OTHER            -> "none"

Needs(stage) ==
    CASE stage \in {"fetch", "check"}          -> "http_client"
      [] stage \in {"load", "retire", "sweep"} -> "connection_pool"
      [] OTHER                                 -> "held"

\* A failed step ends the execution through the function's except handler;
\* a failed lookup only makes check_container_current_location answer None.
Aborts(stage) == stage # "check"

\* A trigger of the job fires.  With max_instances executions of the job
\* live the run is skipped; nothing is kept to be run later.
Tick(job) ==
    /\ sched.running
    /\ sched.fired < MaxTicks
    /\ job = "initial_cleanup" => sched.initial_pending
    /\ LET base == [sched EXCEPT !.fired = @ + 1,
                                 !.ticks[job] = @ + 1,
                                 !.initial_pending = IF job = "initial_cleanup" THEN FALSE ELSE @]
       IN  sched' = IF sched.live[job] >= MaxInstances(job)
                    THEN [base EXCEPT !.skipped[job] = @ + 1]
                    ELSE [base EXCEPT !.live[job] = @ + 1,
                                      !.stage[job] = FirstStage(JobFunc(job)),
                                      !.starts[job] = @ + 1,
                                      !.most[job] = IF sched.live[job] + 1 > @
                                                    THEN sched.live[job] + 1 ELSE @,
                                      !.startedAfterShutdown = @ \/ ~sched.running]
    /\ UNCHANGED <<coreVars, dur, retention, ws, runs, audit, config, pool>>

\* The next await of a live execution.  The HTTP client and the pool are
\* module globals that shutdown_event closes and does not reset, so a step
\* that needs a closed one fails.
Step(job) ==
    /\ sched.live[job] > 0
    /\ LET st     == sched.stage[job]
           res    == Needs(st)
           closed == res # "held" /\ sched[res] = "closed"
           next   == IF closed /\ Aborts(st) THEN "none" ELSE StageAfter(st)
       IN  sched' = [sched EXCEPT
                        !.stage[job] = next,
                        !.live[job] = IF next = "none" THEN @ - 1 ELSE @,
                        !.hurt = IF closed THEN @ \cup {<<job, st>>} ELSE @,
                        !.finishedAfterShutdown =
                            IF next = "none" /\ ~sched.running /\ ~closed
                            THEN @ \cup {job} ELSE @]
    /\ UNCHANGED <<coreVars, dur, retention, ws, runs, audit, config, pool>>

\* shutdown_event up to its first await: scheduler.shutdown(), then
\* http_client.aclose().
ShutdownScheduler ==
    /\ sched.running
    /\ sched' = [sched EXCEPT !.running = FALSE,
                              !.http_client = "closed",
                              !.inFlightAtShutdown = {j \in JobIds : sched.live[j] > 0}]
    /\ UNCHANGED <<coreVars, dur, retention, ws, runs, audit, config, pool>>

\* shutdown_event after that await: connection_pool.close().
ShutdownPool ==
    /\ ~sched.running
    /\ sched.connection_pool = "open"
    /\ sched' = [sched EXCEPT !.connection_pool = "closed"]
    /\ UNCHANGED <<coreVars, dur, retention, ws, runs, audit, config, pool>>

InitSched == CoreIdle /\ AuxInit

NextSched ==
    \/ \E j \in JobIds : Tick(j)
    \/ \E j \in JobIds : Step(j)
    \/ ShutdownScheduler
    \/ ShutdownPool

SpecSched == InitSched /\ [][NextSched]_vars

\* ------------------------------- log_request_to_history: the duration
\* Instants are seconds on the UTC time line.  A datetime is a wall-clock
\* reading, naive (tzinfo None) or aware with a UTC offset in seconds.
Naive == [aware |-> FALSE, offset |-> 0]

TzInfos == {Naive, [aware |-> TRUE, offset |-> 0], [aware |-> TRUE, offset |-> 3600]}

Clocks == {m * 60 + sec : m \in 0..MaxMinutes, sec \in {0, 1, 30, 59}}

\* The datetime that shows instant t with offset tz (naive: the UTC reading).
DateTime(t, tz) == [clock |-> IF tz.aware THEN t + tz.offset ELSE t, tz |-> tz]

\* The conversion left out: an aware req_time read as if it were UTC.
ToUtcNaiveKeepClock(dt) == dt.clock

\* `req_time if req_time.tzinfo is None else
\* req_time.astimezone(pytz.UTC).replace(tzinfo=None)`
ToUtcNaive(dt) == IF ~dt.tz.aware THEN dt.clock ELSE dt.clock - dt.tz.offset

\* int(x / d): the quotient truncated toward zero.
TruncDiv(x, d) == IF x >= 0 THEN x \div d ELSE -((-x) \div d)

\* duration_minutes = int((fulfilled_time - req_time_utc).total_seconds() / 60)
DurationMinutes(req_time, fulfilled_time) ==
    TruncDiv(fulfilled_time - ToUtcNaive(req_time), 60)

\* datetime.isoformat(): the reading, then the offset if there is one.
IsoFormat(dt) == IF dt.tz.aware THEN <<dt.clock, dt.tz.offset>> ELSE <<dt.clock>>

\* datetime.fromisoformat() of such a string.
FromIsoFormat(str) ==
    IF Len(str) = 1 THEN [clock |-> str[1], tz |-> Naive]
    ELSE [clock |-> str[1], tz |-> [aware |-> TRUE, offset |-> str[2]]]

\* The req_time a pass hands to log_request_to_history: the scheduled pass
\* the datetime of the row, the manual pass its isoformat string parsed back.
HandedReqTime(p, req_time) ==
    IF p = "manual" THEN FromIsoFormat(IsoFormat(req_time)) ELSE req_time

\* A call of log_request_to_history by pass p for a request made at instant
\* t, its req_time held with offset tz, while datetime.utcnow() reads now.
LogRequestDuration(p, t, tz, now) ==
    /\ ~dur.called
    /\ LET req_time == HandedReqTime(p, DateTime(t, tz))
       IN  dur' = [called |-> TRUE, by |-> p, instant |-> t, req_time |-> req_time,
                   fulfilled_time |-> now,
                   duration_minutes |-> DurationMinutes(req_time, now)]
    /\ UNCHANGED <<coreVars, sched, retention, ws, runs, audit, config, pool>>

InitDuration == CoreIdle /\ AuxInit

NextDuration ==
    \E p \in PassIds, t \in Clocks, tz \in TzInfos, now \in Clocks :
        LogRequestDuration(p, t, tz, now)

SpecDuration == InitDuration /\ [][NextDuration]_vars

\* ------------------------------------ REQUESTS_HISTORY and its purges
\* Time here is in days.  A row of REQUESTS_HISTORY is seen as its
\* history_id and its fulfilled_time.
StartDay == 100

FulfilledDays == {StartDay - age : age \in {10, 30, 31, 40, 70}}

\* Values the environment can give HISTORY_RETENTION_DAYS: the default and
\* another one.
RetentionConfigs == {30, 60}

HistoryRows(n) ==
    {rows \in SUBSET {[history_id |-> j, fulfilled_time |-> d] :
                          j \in 1..n, d \in FulfilledDays} :
        \A j \in 1..n : Cardinality({r \in rows : r.history_id = j}) = 1}

\* DATEADD(day, -30, GETDATE())
Cutoff(now) == now - RetentionDays

\* WHERE fulfilled_time < DATEADD(day, -30, GETDATE())
OlderThanCutoff(rows, now) == {r \in rows : r.fulfilled_time < Cutoff(now)}

\* automated_history_cleanup up to `if records_to_delete > 0`: the COUNT.
\* With nothing to delete the job ends there.
SweepCount ==
    /\ retention.pc = "idle"
    /\ LET n == Cardinality(OlderThanCutoff(retention.rows, retention.now))
       IN  retention' =
             IF n > 0
             THEN [retention EXCEPT !.pc = "counted", !.records_to_delete = n]
             ELSE [retention EXCEPT !.records_to_delete = n,
                                    !.last = [done |-> TRUE, now |-> retention.now,
                                              before |-> retention.rows,
                                              after |-> retention.rows]]
    /\ UNCHANGED <<coreVars, sched, dur, ws, runs, audit, config, pool>>

\* automated_history_cleanup: the DELETE and the commit.
SweepDelete ==
    /\ retention.pc = "counted"
    /\ LET gone == OlderThanCutoff(retention.rows, retention.now)
       IN  retention' =
             [retention EXCEPT
                 !.pc = "idle",
                 !.rows = @ \ gone,
                 !.purged = @ \cup {[row |-> r, by |-> "automated_history_cleanup",
                                     now |-> retention.now] : r \in gone},
                 !.last = [done |-> TRUE, now |-> retention.now,
                           before |-> retention.rows,
                           after |-> retention.rows \ gone]]
    /\ UNCHANGED <<coreVars, sched, dur, ws, runs, audit, config, pool>>

\* clear_all_history: DELETE FROM REQUESTS_HISTORY, when the table holds a row.
ClearAllHistory ==
    /\ retention.pc \in {"idle", "counted"}
    /\ retention.rows # {}
    /\ retention' =
          [retention EXCEPT
              !.rows = {},
              !.purged = @ \cup {[row |-> r, by |-> "clear_all_history",
                                  now |-> retention.now] : r \in retention.rows}]
    /\ UNCHANGED <<coreVars, sched, dur, ws, runs, audit, config, pool>>

\* log_request_to_history inserts a row: history_id is the table's identity,
\* fulfilled_time the clock's reading.
LogHistoryRow ==
    /\ retention.pc \in {"idle", "counted"}
    /\ Cardinality(retention.written) < MaxHistory
    /\ LET r == [history_id |-> Cardinality(retention.written) + 1,
                 fulfilled_time |-> retention.now]
       IN  retention' = [retention EXCEPT !.rows = @ \cup {r}, !.written = @ \cup {r}]
    /\ UNCHANGED <<coreVars, sched, dur, ws, runs, audit, config, pool>>

\* A day passes.
DayPasses ==
    /\ retention.pc \in {"idle", "counted"}
    /\ retention.now < StartDay + MaxDays
    /\ retention' = [retention EXCEPT !.now = @ + 1]
    /\ UNCHANGED <<coreVars, sched, dur, ws, runs, audit, config, pool>>

\* The history table as earlier days left it, the retention job not running.
InitRetention ==
    /\ CoreIdle
    /\ sched = IdleSched
    /\ dur = IdleDur
    /\ ws = IdleWs
    /\ runs = IdleRuns
    /\ audit = IdleAudit
    /\ config = DefaultConfig
    /\ pool = IdlePool
    /\ \E n \in 0..MaxHistory : \E rows \in HistoryRows(n) :
         \E days \in RetentionConfigs :
            retention = [pc |-> "idle",
                         HISTORY_RETENTION_DAYS |-> days,
                         now |-> StartDay,
                         rows |-> rows,
                         records_to_delete |-> 0,
                         written |-> rows,
                         purged |-> {},
                         last |-> [done |-> FALSE, now |-> StartDay,
                                   before |-> {}, after |-> {}]]

NextRetention ==
    \/ SweepCount
    \/ SweepDelete
    \/ ClearAllHistory
    \/ LogHistoryRow
    \/ DayPasses

SpecRetention == InitRetention /\ [][NextRetention]_vars

\* ------------------------------------ WebSocket registry and broadcast
Subscribers == {"A", "B", "C"}

\* The lists of distinct subscribers: what active_connections can hold.
RECURSIVE Registries(_)
Registries(S) ==
    {<<>>} \cup UNION {{<<c>> \o rest : rest \in Registries(S \ {c})} : c \in S}

Members(list) == {list[n] : n \in 1..Len(list)}

\* list.remove(x): the list without its first x; unchanged (ValueError,
\* passed over) when x is not in it.
RECURSIVE Remove(_, _)
Remove(list, x) ==
    IF list = <<>> THEN <<>>
    ELSE IF Head(list) = x THEN Tail(list)
    ELSE <<Head(list)>> \o Remove(Tail(list), x)

\* The loop over disconnected_connections after the sends.
RECURSIVE RemoveAll(_, _)
RemoveAll(list, dead) ==
    IF dead = <<>> THEN list ELSE RemoveAll(Remove(list, Head(dead)), Tail(dead))

\* send_cleanup_notification, the part that follows a send: the `for` over
\* active_connections goes on from index i on the list as it is now; when
\* the index is past its end the dead connections are removed and the
\* function returns.
AfterSend(w) ==
    IF w.i <= Len(w.active_connections)
    THEN [w EXCEPT !.pc = "sending", !.connection = w.active_connections[w.i]]
    ELSE [w EXCEPT !.pc = "done",
                   !.active_connections = RemoveAll(@, w.disconnected_connections),
                   !.evicted = Members(w.active_connections)
                                   \cap Members(w.disconnected_connections)]

\* send_cleanup_notification up to its first await: nothing to do with an
\* empty registry; else the first connection's send_text is awaited.
BroadcastStart ==
    /\ ws.pc = "idle"
    /\ ws' = IF ws.active_connections = <<>>
             THEN [ws EXCEPT !.pc = "done", !.atStart = <<>>]
             ELSE AfterSend([ws EXCEPT !.i = 1, !.atStart = ws.active_connections])
    /\ UNCHANGED <<coreVars, sched, dur, retention, runs, audit, config, pool>>

\* The awaited send_text returns or raises; a raise marks the connection
\* for removal.  Then the loop goes on.
BroadcastSend ==
    /\ ws.pc = "sending"
    /\ LET c  == ws.connection
           ok == c \in ws.alive
       IN  ws' = AfterSend([ws EXCEPT
                    !.i = @ + 1,
                    !.attempted = Append(@, c),
                    !.succeeded = IF ok THEN @ \cup {c} ELSE @,
                    !.disconnected_connections = IF ok THEN @ ELSE Append(@, c)])
    /\ UNCHANGED <<coreVars, sched, dur, retention, runs, audit, config, pool>>

\* websocket_endpoint: a client connects and is appended.
Connect(c) ==
    /\ ws.pc \in {"idle", "sending"}
    /\ ws.churn < MaxChurn
    /\ c \notin Members(ws.active_connections)
    /\ c \notin ws.left
    /\ ws' = [ws EXCEPT !.active_connections = Append(@, c),
                        !.alive = @ \cup {c},
                        !.churn = @ + 1]
    /\ UNCHANGED <<coreVars, sched, dur, retention, runs, audit, config, pool>>

\* websocket_endpoint: receive_text raises WebSocketDisconnect and the
\* handler removes its connection.
Disconnect(c) ==
    /\ ws.pc \in {"idle", "sending"}
    /\ ws.churn < MaxChurn
    /\ c \in Members(ws.active_connections)
    /\ ws' = [ws EXCEPT !.active_connections = Remove(@, c),
                        !.alive = @ \ {c},
                        !.left = @ \cup {c},
                        !.churn = @ + 1]
    /\ UNCHANGED <<coreVars, sched, dur, retention, runs, audit, config, pool>>

\* A client's connection breaks; its handler has not noticed yet.
ConnectionDies(c) ==
    /\ ws.pc \in {"idle", "sending"}
    /\ ws.churn < MaxChurn
    /\ c \in ws.alive
    /\ ws' = [ws EXCEPT !.alive = @ \ {c}, !.churn = @ + 1]
    /\ UNCHANGED <<coreVars, sched, dur, retention, runs, audit, config, pool>>

\* Some clients connected, some of their connections already broken, no
\* broadcast under way.
InitBroadcast ==
    /\ CoreIdle
    /\ sched = IdleSched
    /\ dur = IdleDur
    /\ retention = IdleRetention
    /\ runs = IdleRuns
    /\ audit = IdleAudit
    /\ config = DefaultConfig
    /\ pool = IdlePool
    /\ \E list \in Registries(Subscribers) : \E alive \in SUBSET Members(list) :
          ws = [pc |-> "idle",
                active_connections |-> list,
                alive |-> alive,
                i |-> 1,
                connection |-> "",
                disconnected_connections |-> <<>>,
                churn |-> 0,
                \* ghost fields
                atStart |-> <<>>,
                attempted |-> <<>>,
                succeeded |-> {},
                evicted |-> {},
                left |-> {}]

NextBroadcast ==
    \/ BroadcastStart
    \/ BroadcastSend
    \/ \E c \in Subscribers : Connect(c)
    \/ \E c \in Subscribers : Disconnect(c)
    \/ \E c \in Subscribers : ConnectionDies(c)

SpecBroadcast == InitBroadcast /\ [][NextBroadcast]_vars

\* --------------------------------------- the interval job, for ever
\* A trigger of container_cleanup with no execution live: the scheduled
\* pass starts again, as often as the scheduler fires.  The fetch raises
\* only while the budget of failures lasts (it is shared with the failed
\* history writes), so that in the end the oracle and the stores answer.
ScheduledRun ==
    /\ pass["scheduled"].pc \in {"idle", "done"}
    /\ \E raised \in BOOLEAN :
          /\ raised => faults < MaxFaults
          /\ faults' = IF raised THEN faults + 1 ELSE faults
          /\ pass' = [pass EXCEPT !["scheduled"] = StartedPass("scheduled", raised)]
    /\ UNCHANGED auxVars
    /\ UNCHANGED <<requests, history, req_id, inserted, pendingInc, erpLoc,
                   erpProd, moves, passes, dr, deleted>>

\* The steps of the scheduled pass.
ScheduledStep ==
    \/ ScheduledRun
    \/ LoadRequests("scheduled")
    \/ CheckRequest("scheduled")
    \/ RetireCandidate("scheduled")
    \/ Commit("scheduled")

NextLive ==
    \/ ScheduledStep
    \/ \E s \in Serials, l \in Locations \cup {NoLocation} : ErpMove(s, l)
    \/ \E prod \in ProdSets : ErpReclassify(prod)

\* The scheduler keeps firing and every await of the pass returns: the
\* pass always takes its next step.
SpecLive == InitPass /\ [][NextLive]_vars /\ WF_vars(ScheduledStep)

\* ------------------------------------------ delete_request by itself
\* Manual deletions, one after the other, over a store of up to MaxLoaded
\* requests with req_ids that all differ; no pass runs and nothing is
\* submitted.
NextDelete ==
    \/ \E s \in Serials : DeleteSelect(s)
    \/ DeleteLog
    \/ DeleteCommit

SpecDelete == InitPass /\ [][NextDelete]_vars

\* ------------------------------------------- the configured ceiling
\* Values the environment can give CLEANUP_SAFETY_LIMIT: the default, one
\* below and one above.  AppConfig reads the setting; no function of the
\* program reads it from AppConfig.
CeilingConfigs == {SafetyLimit - 1, SafetyLimit, SafetyLimit + 1}

\* The passes over a store of about SafetyLimit requests, as InitGate, for
\* each of those settings.
InitCeiling ==
    /\ \E n \in SafetyLimit..(SafetyLimit + GateExtra) : requests \in LargeStores(n)
    /\ history = <<>>
    /\ req_id = 0
    /\ inserted = Cardinality(requests)
    /\ pendingInc = 0
    /\ erpLoc \in [Serials -> Locations \cup {NoLocation}]
    /\ erpProd = {"PROD-A"}
    /\ moves = 0
    /\ faults = 0
    /\ pass = [p \in PassIds |-> IdlePass]
    /\ passes = 0
    /\ dr = IdleDelete
    /\ deleted = {}
    /\ sched = IdleSched
    /\ dur = IdleDur
    /\ retention = IdleRetention
    /\ ws = IdleWs
    /\ runs = IdleRuns
    /\ audit = IdleAudit
    /\ pool = IdlePool
    /\ \E limit \in CeilingConfigs : config = [CLEANUP_SAFETY_LIMIT |-> limit]

SpecCeiling == InitCeiling /\ [][NextGate]_vars

\* ---------------------------- a request's columns, into the history
\* Text columns hold text or NULL; quantity is <<>> for NULL and <<q>> for
\* the number q (whole numbers here, which float() leaves as they are).
NULL == "NULL"

Revisions == {NULL, "", "B"}

Quantities == {<<>>, <<0>>, <<5>>}

MasterUnits == {NULL, "MU-1"}

\* Who retires a request: the two passes and delete_request.
Retirers == PassIds \cup {"delete_request"}

\* A row of REQUESTS with the ten columns request_serial_no inserts.
ActiveRequest(serial, revision, quantity, master_unit_no, type) ==
    [req_id |-> 0, serial_no |-> serial, part_no |-> "P1", revision |-> revision,
     quantity |-> quantity, location |-> "WH-1", deliver_to |-> "WC-1",
     req_time |-> DateTime(60, Naive), master_unit_no |-> master_unit_no,
     request_type |-> type]

\* SELECT req_id, serial_no, part_no, revision, quantity, location,
\* deliver_to, req_time, request_type FROM REQUESTS: the same nine columns in
\* both passes and in delete_request.
SelectedColumns(row) ==
    [col \in {"req_id", "serial_no", "part_no", "revision", "quantity", "location",
              "deliver_to", "req_time", "request_type"} |-> row[col]]

\* `x or ''`
OrEmpty(x) == IF x \in {NULL, ""} THEN "" ELSE x

\* `float(q) if q is not None else 0.0`
FloatIfNotNone(q) == IF q = <<>> THEN <<0>> ELSE q

\* `float(q) if q else 0.0`
FloatIfTruthy(q) == IF q \in {<<>>, <<0>>} THEN <<0>> ELSE q

\* `request_type or 'PICK_UP'`
OrPickUp(x) == IF x \in {NULL, ""} THEN PICK_UP ELSE x

\* The dict a pass keeps for a candidate ('stored_location' is the column
\* location); delete_request keeps the fetched tuple.
ContainerInfo(by, sel, current_location) ==
    [req_id |-> sel.req_id, serial_no |-> sel.serial_no, part_no |-> sel.part_no,
     revision |-> sel.revision,
     quantity |-> IF by = "manual" THEN FloatIfNotNone(sel.quantity) ELSE sel.quantity,
     stored_location |-> sel.location,
     current_location |-> current_location,
     deliver_to |-> sel.deliver_to,
     req_time |-> HandedReqTime(by, sel.req_time),
     request_type |-> sel.request_type]

\* The values handed to log_request_to_history, and the row its INSERT
\* makes of them: the INSERT names no master_unit_no, so that column of
\* REQUESTS_HISTORY is left NULL.
LoggedRow(by, c) ==
    [req_id |-> c.req_id, serial_no |-> c.serial_no, part_no |-> c.part_no,
     revision |-> OrEmpty(c.revision),
     quantity |-> FloatIfTruthy(c.quantity),
     location |-> c.stored_location,
     deliver_to |-> c.deliver_to,
     req_time |-> c.req_time,
     master_unit_no |-> NULL,
     current_location |-> c.current_location,
     fulfillment_type |-> IF by = "delete_request" THEN "manual_delete"
                          ELSE FulfillmentType(by),
     request_type |-> IF by = "delete_request" THEN OrPickUp(c.request_type)
                      ELSE c.request_type]

\* The current_location each retirer hands over.
HandedLocation(by) == IF by = "delete_request" THEN "Unknown (Manual Delete)" ELSE "PROD-A"

\* A request is retired by one of the three and its history row written.  A
\* pass never has a PUT_BACK request among its candidates.
RetireWithColumns(by, row) ==
    /\ ~audit.done
    /\ by \in PassIds => ~SkipRequest(row.request_type)
    /\ audit' = [done |-> TRUE, by |-> by, request |-> row,
                 record |-> LoggedRow(by, ContainerInfo(by, SelectedColumns(row),
                                                        HandedLocation(by)))]
    /\ UNCHANGED <<coreVars, sched, dur, retention, ws, runs, config, pool>>

InitColumns == CoreIdle /\ AuxInit

NextColumns ==
    \E by \in Retirers, s \in Serials, rev \in Revisions, q \in Quantities,
       mu \in MasterUnits, ty \in ReqTypes :
        RetireWithColumns(by, ActiveRequest(s, rev, q, mu, ty))

SpecColumns == InitColumns /\ [][NextColumns]_vars

\* ------------------------------------------- the connection pool
\* The handlers that hold a connection while log_request_to_history
\* acquires another: delete_request, and a pass in its removal loop.  They
\* are counted by where they stand:
\*   idle     not started, or waiting in acquire() for its first connection
\*   holding  has its connection, calls log_request_to_history, which
\*            waits in acquire(): aioodbc's acquire waits, without a
\*            timeout, until a connection is free
\*   logging  log_request_to_history has its connection too
\*   after    log_request_to_history has released its connection
\*   done     the handler has released its own
Handlers == {"delete_request", "pass"}

Stages == {"idle", "holding", "logging", "after", "done"}

\* Connections a handler at a stage has out of the pool.
Held(stage) ==
    CASE stage \in {"holding", "after"} -> 1
      [] stage = "logging"              -> 2
      [] OTHER                          -> 0

RECURSIVE SumHeld(_, _)
SumHeld(count, stages) ==
    IF stages = {} THEN 0
    ELSE LET st == CHOOSE x \in stages : TRUE
         IN  count[st] * Held(st) + SumHeld(count, stages \ {st})

PoolUsed == SumHeld(pool.at["delete_request"], Stages) + SumHeld(pool.at["pass"], Stages)

PoolFree == DB_POOL_MAX_SIZE - PoolUsed

\* A handler of kind h goes from one stage to the next.
Moved(h, from, to) ==
    [pool EXCEPT !.at[h][from] = @ - 1, !.at[h][to] = @ + 1]

\* `conn = await get_db_connection()` of the handler.
AcquireFirst(h) ==
    /\ pool.at[h]["idle"] > 0
    /\ PoolFree > 0
    /\ pool' = Moved(h, "idle", "holding")
    /\ UNCHANGED <<coreVars, sched, dur, retention, ws, runs, audit, config>>

\* `conn = await get_db_connection()` of log_request_to_history, called by
\* a handler that holds its own connection.
AcquireSecond(h) ==
    /\ pool.at[h]["holding"] > 0
    /\ PoolFree > 0
    /\ pool' = Moved(h, "holding", "logging")
    /\ UNCHANGED <<coreVars, sched, dur, retention, ws, runs, audit, config>>

\* The `finally: await release_db_connection(conn)` of log_request_to_history.
ReleaseSecond(h) ==
    /\ pool.at[h]["logging"] > 0
    /\ pool' = Moved(h, "logging", "after")
    /\ UNCHANGED <<coreVars, sched, dur, retention, ws, runs, audit, config>>

\* The removal loop of a pass goes on to its next candidate.
NextContainer ==
    /\ pool.at["pass"]["after"] > 0
    /\ pool.loops < MaxLoops
    /\ pool' = [Moved("pass", "after", "holding") EXCEPT !.loops = @ + 1]
    /\ UNCHANGED <<coreVars, sched, dur, retention, ws, runs, audit, config>>

\* The handler's commit and its `finally: await release_db_connection(conn)`.
ReleaseFirst(h) ==
    /\ pool.at[h]["after"] > 0
    /\ pool' = Moved(h, "after", "done")
    /\ UNCHANGED <<coreVars, sched, dur, retention, ws, runs, audit, config>>

\* The pool created, no connection out, no handler started.
InitPool ==
    /\ CoreIdle
    /\ sched = IdleSched
    /\ dur = IdleDur
    /\ retention = IdleRetention
    /\ ws = IdleWs
    /\ runs = IdleRuns
    /\ audit = IdleAudit
    /\ config = DefaultConfig
    /\ pool = [pc |-> "open",
               at |-> [h \in Handlers |->
                         [st \in Stages |->
                            IF st = "idle"
                            THEN (IF h = "pass" THEN MaxPassTasks ELSE MaxDeletes)
                            ELSE 0]],
               loops |-> 0]

\* What a handler does once it has its first connection.
PoolStep ==
    \/ \E h \in Handlers : AcquireSecond(h)
    \/ \E h \in Handlers : ReleaseSecond(h)
    \/ NextContainer
    \/ \E h \in Handlers : ReleaseFirst(h)

NextPool ==
    \/ \E h \in Handlers : AcquireFirst(h)
    \/ PoolStep

\* Requests arrive or not; a handler that has started takes its next step
\* whenever it can.
SpecPool == InitPool /\ [][NextPool]_vars /\ WF_vars(PoolStep)

\* ------------------------------------------------------------- claims
Scheduled == pass["scheduled"]
Manual    == pass["manual"]

\* The candidates of a pass whose row is the one loaded at index n.
CandidatesOf(ps, n) ==
    {k \in 1..Len(ps.containers_to_remove) :
        ps.containers_to_remove[k].row.rid = ps.active_requests[n].rid}

\* C1: no request of type PUT_BACK is ever removed from REQUESTS by a
\* reconciliation pass, scheduled or manual.
C1_PutBackNeverDeletedByPass ==
    \A d \in deleted : d.by \in PassIds => d.row.request_type # PUT_BACK

\* C2: every row removed from REQUESTS, by a pass or by delete_request, had
\* a history row with its req_id and serial_no when it was removed.
C2_NoUnauditedDeletion ==
    \A d \in deleted : d.audited

\* C3: within a pass, the DELETE for a candidate is issued only after the
\* history write for that candidate has succeeded, and the history row is
\* in REQUESTS_HISTORY by then.
C3_HistoryBeforeDelete ==
    \A p \in PassIds : \A k \in pass[p].delIssued :
        /\ k \in pass[p].histOk
        /\ LET c == pass[p].containers_to_remove[k]
           IN  \E n \in 1..Len(history) :
                 history[n] = HistoryRecord(c.row.req_id, c.row.serial_no, c.row.req_time,
                                            c.row.request_type, c.current_location,
                                            FulfillmentType(p))

\* A pass has issued a DELETE for one candidate and skipped another whose
\* history write failed.
C3_Witness ==
    \E p \in PassIds : pass[p].delIssued # {} /\ pass[p].histFail # {}

\* C4: when the history write for a candidate fails, the pass does not
\* remove that candidate's request, it records one error per failed write,
\* it tries each candidate once, and it goes on to the other candidates.
C4_FailedWriteLeavesRequest ==
    \A p \in PassIds :
        LET ps == pass[p]
        IN  /\ \A k \in ps.histFail :
                  ps.containers_to_remove[k].row.rid \notin ps.removed
            /\ ps.errors = Cardinality(ps.histFail)
            /\ ps.histOk \cap ps.histFail = {}
            /\ (ps.pc = "done" /\ ps.outcome = "complete")
                  => ps.histOk \cup ps.histFail = 1..Len(ps.containers_to_remove)

\* C5: a scheduled pass with more candidates than the ceiling writes no
\* history row, issues no DELETE and removes nothing.
C5_OverCeilingNoMutation ==
    Len(Scheduled.containers_to_remove) > SafetyLimit
        => /\ Scheduled.histOk = {}
           /\ Scheduled.histFail = {}
           /\ Scheduled.delIssued = {}
           /\ Scheduled.pendingDel = {}
           /\ Scheduled.removed = {}
           /\ Scheduled.pc \in {"check", "done"}

\* A scheduled pass has ended on the safety abort.
C5_Witness ==
    /\ Scheduled.pc = "done"
    /\ Scheduled.outcome = "safety_abort"
    /\ Len(Scheduled.containers_to_remove) > SafetyLimit

\* C6: a scheduled pass that aborts (no production locations, a failed
\* fetch, the safety abort) has sent an event when it ends.
C6_AbortEmitsEvent ==
    (Scheduled.pc = "done"
        /\ Scheduled.outcome \in {"no_prod_locations", "error", "safety_abort"})
        => Scheduled.event # "none"

\* C7: a manual pass with more candidates than the ceiling writes no
\* history row and issues no DELETE, as the scheduled pass does.
C7_ManualPassHasSafetyGate ==
    Len(Manual.containers_to_remove) > SafetyLimit
        => /\ Manual.histOk = {}
           /\ Manual.histFail = {}
           /\ Manual.delIssued = {}
           /\ Manual.pendingDel = {}
           /\ Manual.removed = {}

\* C8: a scheduled pass that got no production location (the set is empty,
\* or the fetch failed) loads no request, looks none up, writes no history
\* row and removes nothing.
C8_NoProdLocationsTouchesNothing ==
    (Scheduled.pc # "idle" /\ Scheduled.prod_locations = {})
        => /\ ~Scheduled.loaded
           /\ Scheduled.active_requests = <<>>
           /\ Scheduled.observed = <<>>
           /\ Scheduled.containers_to_remove = <<>>
           /\ Scheduled.histOk = {}
           /\ Scheduled.histFail = {}
           /\ Scheduled.delIssued = {}
           /\ Scheduled.removed = {}
           /\ Scheduled.pc = "done"

\* A scheduled pass has ended on an empty production-location list while
\* requests were stored.
C8_Witness ==
    /\ Scheduled.pc = "done"
    /\ Scheduled.outcome = "no_prod_locations"
    /\ requests # {}

\* C9: a request whose lookup gave no location is not a candidate, is not
\* removed by the pass, and the loop goes on to the requests after it.
C9_LookupFailureLeavesRequest ==
    \A p \in PassIds :
        LET ps == pass[p]
        IN  /\ \A n \in 1..Len(ps.observed) :
                  ps.observed[n] = NoLocation
                      => /\ CandidatesOf(ps, n) = {}
                         /\ ps.active_requests[n].rid \notin ps.removed
            /\ (ps.pc = "done" /\ ps.outcome = "complete")
                  => Len(ps.observed) = Len(ps.active_requests)

\* C10: when a scheduled pass has gone through, the PICK_UP requests it
\* removed are those it observed in its production-location set and logged
\* to history; every such request had its DELETE issued; a request observed
\* elsewhere was not removed; and every history row the pass wrote is of
\* type auto_cleanup with the observed location.
C10_RetiresIffObservedInProduction ==
    (Scheduled.pc = "done" /\ Scheduled.outcome = "complete")
        => /\ \A n \in 1..Len(Scheduled.active_requests) :
                 LET r   == Scheduled.active_requests[n]
                     loc == Scheduled.observed[n]
                 IN  /\ r.rid \in Scheduled.removed
                        => /\ loc \in Scheduled.prod_locations
                           /\ CandidatesOf(Scheduled, n) \cap Scheduled.histOk # {}
                     /\ (r.request_type = PICK_UP /\ loc \in Scheduled.prod_locations)
                        => /\ CandidatesOf(Scheduled, n) # {}
                           /\ CandidatesOf(Scheduled, n) \cap Scheduled.histOk
                                 \subseteq Scheduled.delIssued
                     /\ loc \notin Scheduled.prod_locations
                        => r.rid \notin Scheduled.removed
           /\ \A k \in Scheduled.histOk :
                 LET c == Scheduled.containers_to_remove[k]
                 IN  \E n \in 1..Len(history) :
                       /\ history[n].req_id = c.row.req_id
                       /\ history[n].serial_no = c.row.serial_no
                       /\ history[n].fulfillment_type = "auto_cleanup"
                       /\ history[n].current_location = c.current_location
                       /\ c.current_location =
                             Scheduled.observed[CHOOSE m \in 1..Len(Scheduled.active_requests) :
                                                    Scheduled.active_requests[m].rid = c.row.rid]

\* C11: for the two repeating jobs at most one execution is live at any
\* time; a trigger that fires while one is live starts nothing, then or
\* later: the executions started are the triggers that were not skipped.
C11_SingleFlightPerJob ==
    \A j \in {"container_cleanup", "history_cleanup"} :
        /\ sched.live[j] <= 1
        /\ sched.most[j] <= 1
        /\ sched.starts[j] + sched.skipped[j] = sched.ticks[j]
        /\ sched.skipped[j] > 0 => sched.starts[j] > 0

\* A trigger of the interval job was skipped while its execution is live.
C11_Witness ==
    /\ sched.skipped["container_cleanup"] > 0
    /\ sched.live["container_cleanup"] = 1

\* C12: after shutdown has stopped the scheduler no execution starts, and
\* no step of an execution fails because of what shutdown closed.
C12_ShutdownLetsPassFinish ==
    /\ ~sched.startedAfterShutdown
    /\ sched.hurt = {}

\* Every row ever inserted into REQUESTS: those stored and those removed.
EverInserted == requests \cup {d.row : d \in deleted}

\* C13: of any two requests ever inserted, the later one has the larger
\* req_id: ids are unique, increasing and never reused.
C13_ReqIdUniqueIncreasing ==
    \A r1 \in EverInserted : \A r2 \in EverInserted :
        r1.rid < r2.rid => r1.req_id < r2.req_id

\* C14 as stated: duration_minutes is floor((fulfilled_time - req_time) / 60 s)
\* for every history row, and is >= 0 when req_time <= fulfilled_time.
C14_DurationIsFloor ==
    dur.called =>
        /\ dur.duration_minutes = (dur.fulfilled_time - dur.instant) \div 60
        /\ dur.instant <= dur.fulfilled_time => dur.duration_minutes >= 0

\* C14, amended: duration_minutes is (fulfilled_time - req_time) / 60 s, both
\* in UTC, truncated toward zero: the floor, and >= 0, when req_time <=
\* fulfilled_time; minus the floor of (req_time - fulfilled_time) / 60 s when
\* req_time is the later one.
C14_DurationTruncatesTowardZero ==
    dur.called =>
        /\ dur.instant <= dur.fulfilled_time
              => /\ dur.duration_minutes = (dur.fulfilled_time - dur.instant) \div 60
                 /\ dur.duration_minutes >= 0
        /\ dur.instant > dur.fulfilled_time
              => dur.duration_minutes = -((dur.instant - dur.fulfilled_time) \div 60)

\* A call with an aware req_time, one hour off UTC, later than the
\* fulfilment by less than a minute.
C14_Witness ==
    /\ dur.called
    /\ dur.req_time.tz.aware
    /\ dur.req_time.tz.offset = 3600
    /\ dur.instant > dur.fulfilled_time
    /\ dur.instant - dur.fulfilled_time < 60

\* C15: a finished retention sweep has deleted exactly the history rows
\* whose fulfilled_time was older than now minus the configured retention
\* days, and has kept every other row.
C15_SweepPurgesByConfiguredAge ==
    retention.pc # "none" /\ retention.last.done =>
        retention.last.before \ retention.last.after =
            {r \in retention.last.before :
                r.fulfilled_time < retention.last.now - retention.HISTORY_RETENTION_DAYS}

\* C16: a history row, once written, stays as written until the retention
\* sweep removes it, and the sweep removes it only when its fulfilled_time
\* is older than the retention period; nothing else removes one.
C16_HistoryAppendOnly ==
    retention.pc # "none" =>
        /\ \A w \in retention.written :
              w \in retention.rows \/ w \in {x.row : x \in retention.purged}
        /\ \A x \in retention.purged :
              /\ x.by = "automated_history_cleanup"
              /\ x.row.fulfilled_time < x.now - RetentionDays

\* C17: a finished broadcast has attempted every subscriber that was
\* registered when it started and has not disconnected since; it has
\* removed from the registry exactly the subscribers whose send failed; and
\* every subscriber whose send succeeded is still registered, unless it
\* disconnected by itself.
C17_BroadcastIsolatesFailures ==
    ws.pc = "done" =>
        /\ \A c \in Members(ws.atStart) :
              c \in ws.left \/ c \in Members(ws.attempted)
        /\ ws.evicted \cap ws.succeeded = {}
        /\ \A c \in Members(ws.disconnected_connections) :
              c \notin Members(ws.active_connections)
        /\ \A c \in ws.succeeded :
              c \in ws.left \/ c \in Members(ws.active_connections)

\* The pass that is being run, or was run, a second time.
Again == pass[runs.by]

C19_ReportsWhatWasRemoved ==
    \A p \in PassIds :
        (pass[p].pc = "done" /\ pass[p].outcome = "complete")
            => /\ RemovedContainers(pass[p]) = Cardinality(pass[p].removed)
               /\ ContainersRemoved(pass[p]) = pass[p].removed

\* C20: a manual pass in which a history write failed ends with errors
\* recorded and a status other than success.
C20_ManualFailureIsNotSuccess ==
    (Manual.pc = "done" /\ Manual.histFail # {})
        => /\ Manual.errors > 0
           /\ Manual.status # "success"

\* C21: the history row of a retired request holds, unchanged, the request's
\* req_id, serial_no, part_no, revision, quantity, stored location,
\* deliver_to, req_time, master_unit_no and request_type.
C21_HistoryCarriesAllFields ==
    audit.done =>
        \A col \in {"req_id", "serial_no", "part_no", "revision", "quantity", "location",
                    "deliver_to", "req_time", "master_unit_no", "request_type"} :
            audit.record[col] = audit.request[col]

\* The history rows written for a request: those with its req_id, serial_no,
\* req_time and request_type.
RecordsOf(r) ==
    {n \in 1..Len(history) :
        /\ history[n].req_id = r.req_id
        /\ history[n].serial_no = r.serial_no
        /\ history[n].req_time = r.req_time
        /\ history[n].request_type = r.request_type}

\* A stored row stays as it is for as long as it is stored.
NeverUpdated ==
    \A r \in requests : \A r2 \in requests' : r2.rid = r.rid => r2 = r

\* C22: whatever the interleaving of the passes and of delete_request, no
\* request ever inserted has more than one history row, and no stored
\* request is changed in place.
C22_RetiredExactlyOnce ==
    /\ [](\A r \in EverInserted : Cardinality(RecordsOf(r)) <= 1)
    /\ [][NeverUpdated]_vars

\* The subscribers registered from the start of the broadcast to its end.
StayedRegistered == Members(ws.atStart) \ ws.left

\* C23: with connects and disconnects between the sends of a broadcast, a
\* finished broadcast has sent once, and only once, to every subscriber
\* that stayed registered throughout, and the registry then holds no
\* subscriber that left or whose send failed and every other one that
\* stayed.
C23_RegistrySafeUnderChurn ==
    ws.pc = "done" =>
        /\ \A c \in StayedRegistered :
              Cardinality({n \in 1..Len(ws.attempted) : ws.attempted[n] = c}) = 1
        /\ \A c \in Subscribers :
              Cardinality({n \in 1..Len(ws.attempted) : ws.attempted[n] = c}) <= 1
        /\ Members(ws.active_connections) \cap ws.left = {}
        /\ Members(ws.active_connections) \cap Members(ws.disconnected_connections) = {}
        /\ StayedRegistered \ Members(ws.disconnected_connections)
              \subseteq Members(ws.active_connections)

\* C24: a scheduled pass ends on the safety abort exactly when it has more
\* candidates than CLEANUP_SAFETY_LIMIT is set to; with that many or fewer
\* it goes on to retire them.
C24_AbortsAboveConfiguredCeiling ==
    LET n == Len(Scheduled.containers_to_remove)
    IN  /\ (Scheduled.pc = "done" /\ Scheduled.outcome = "safety_abort")
              => n > config.CLEANUP_SAFETY_LIMIT
        /\ (Scheduled.pc \in {"retire", "commit"}
              \/ (Scheduled.pc = "done" /\ Scheduled.outcome = "complete"))
              => n <= config.CLEANUP_SAFETY_LIMIT

\* C25: a manual pass that got no production location (the set is empty, or
\* the fetch failed) loads no request, looks none up, writes no history row,
\* removes nothing, and ends with status error.
C25_ManualNoProdLocationsFailsFast ==
    (Manual.pc # "idle" /\ Manual.prod_locations = {})
        => /\ ~Manual.loaded
           /\ Manual.observed = <<>>
           /\ Manual.histOk = {}
           /\ Manual.histFail = {}
           /\ Manual.delIssued = {}
           /\ Manual.removed = {}
           /\ Manual.pc = "done"
           /\ Manual.status = "error"

\* The live executions of automated_container_cleanup, whatever job
\* started them.
LivePasses ==
    sched.live["container_cleanup"] + sched.live["initial_cleanup"]

\* C26: at no time are two executions of automated_container_cleanup live
\* that the scheduler started, the one of the one-shot job initial_cleanup
\* and those of the interval job container_cleanup counted together.
C26_NoTwoScheduledPassesLive ==
    LivePasses <= 1

\* C27: the rows a pass removes from REQUESTS are rows it loaded, looked up
\* and flagged in that same pass; a PUT_BACK row, a row it did not flag and
\* a row inserted after it loaded its list are not removed by it, two rows
\* with one req_id or not.
C27_PassRemovesOnlyItsCandidates ==
    \A p \in PassIds :
        /\ pass[p].removed \subseteq ContainersRemoved(pass[p])
        /\ pass[p].removed \subseteq
              {pass[p].active_requests[n].rid : n \in 1..Len(pass[p].active_requests)}

\* The rows delete_request has removed, and the history rows it has written.
ManuallyDeleted == {d \in deleted : d.by = "delete_request"}

ManualDeleteRecords ==
    {n \in 1..Len(history) : history[n].fulfillment_type = "manual_delete"}

\* C28: between manual deletions, the history holds as many manual_delete
\* rows as delete_request has removed requests, and each removed request
\* has one of them.
C28_OneRecordPerDeletedRow ==
    dr.pc = "idle" =>
        /\ Cardinality(ManualDeleteRecords) = Cardinality(ManuallyDeleted)
        /\ \A d \in ManuallyDeleted :
              \E n \in ManualDeleteRecords : history[n].req_id = d.row.req_id

\* Every row the store can hold at the start.
StorableRows ==
    {Row(j, j - 1, sn, j, ty) : j \in 1..MaxLoaded, sn \in Serials, ty \in ReqTypes}

\* The oracle reports the container in a production location.
InProduction(serial) == erpLoc[serial] \in erpProd

\* C29: a stored PICK_UP request whose container stays in a production
\* location is in the end removed by the scheduled passes, other requests'
\* failed lookups and failed history writes notwithstanding: from any state
\* where it is stored, a state follows where it is gone, or its container
\* has left production.
C29_EventuallyRetired ==
    \A r \in StorableRows :
        (r \in requests /\ r.request_type = PICK_UP)
            ~> (r \notin requests \/ ~InProduction(r.serial_no))

\* A scheduled pass has removed a request after a fetch or a history write
\* had failed, while another container's lookup gives nothing.
C29_Witness ==
    /\ Scheduled.pc = "done"
    /\ Scheduled.outcome = "complete"
    /\ Scheduled.removed # {}
    /\ faults > 0
    /\ \E sn \in Serials : erpLoc[sn] = NoLocation

\* C30: however many passes and manual deletions run at once, each of them
\* gets its second connection, finishes and gives back what it acquired:
\* whenever connections are out of the pool, a state follows in which all
\* of them are back and no handler is left half-way.
C30_PoolNeverDeadlocks ==
    (pool.pc = "open" /\ PoolUsed > 0)
        ~> (PoolUsed = 0
              /\ \A h \in Handlers : \A st \in {"holding", "logging", "after"} :
                    pool.at[h][st] = 0)

====
